---- MODULE Spec2Model ----
(***************************************************************************)
(* Scenario IFSEI integration: the light and cover entities                *)
(* (custom_components/scenario/light.py, cover.py, __init__.py).           *)
(*                                                                         *)
(* One ScenarioLight and one ScenarioCover, the controller handle they     *)
(* share (is_connected, device_manager), and the effects of the handler    *)
(* that ran last: the controller calls it issued (sent), the exception it  *)
(* let propagate (raised), the async_write_ha_state calls it made          *)
(* (ha_writes) and the call itself (last).  entities tells which entity    *)
(* was built and whether it was removed again, subscribers the callbacks   *)
(* registered on the two device objects.                                   *)
(*                                                                         *)
(* Python's None is the empty sequence and a present value x is <<x>>.     *)
(***************************************************************************)
EXTENDS Integers, Sequences, FiniteSets, TLC

VARIABLES
    is_connected,      \* IFSEI.is_connected, the live connection status
    device_manager,    \* IFSEI.device_manager: None or Some("device_manager")
    light,             \* the ScenarioLight entity's attributes
    cover,             \* the ScenarioCover entity's attributes
    cover_device,      \* the Cover device object's current up/down/stop codes
    entities,          \* per entity: "none" (not built), "added" or "removed"
    subscribers,       \* per device object: the callbacks registered on it
    last,              \* the handler that ran last, with its arguments
    sent,              \* controller calls the last handler issued, in order
    raised,            \* exception the last handler let propagate, or None
    ha_writes,         \* the entity states the last handler wrote with
                       \* async_write_ha_state, in order
    entry,             \* the config entry: its state, options, unique id,
                       \* its data in hass.data[DOMAIN] and the calls the
                       \* last setup made on the controller and the host
    config_entries     \* the config entries of the domain the host holds,
                       \* as the config flow sees them, in creation order

vars == <<is_connected, device_manager, light, cover, cover_device,
          entities, subscribers, last, sent, raised, ha_writes, entry,
          config_entries>>

None == <<>>

Some(x) == <<x>>

Opt(S) == {None} \cup {Some(x) : x \in S}

(***************************************************************************)
(* Bounds of the model.                                                    *)
(***************************************************************************)
\* how many of HassLevelSeq's levels the commands draw their brightness from
MaxHassLevels == 3

\* how many of RgbwSeq's tuples the commands draw their rgbw_color from
MaxRgbwColors == 2

\* how many of ScenarioLevelSeq's levels the notifications draw their
\* brightness field from
MaxScenarioLevels == 2

\* longest address list of a light device
MaxAddresses == 2

\* how many config entries the config flow may create
MaxEntries == 2

(***************************************************************************)
(* Input domains.                                                          *)
(***************************************************************************)
\* Home Assistant levels (0..255) given to the commands
HassLevelSeq == <<0, 255, 128, 64, 1, 254, 127>>

HassLevels == {HassLevelSeq[i] : i \in 1..MaxHassLevels}

\* rgbw_color arguments given to the commands
RgbwSeq == <<
    <<255, 128, 0, 64>>, <<0, 0, 0, 255>>, <<1, 2, 3, 4>>, <<0, 0, 0, 0>> >>

RgbwColors == {RgbwSeq[i] : i \in 1..MaxRgbwColors}

\* Scenario levels (0..100) of the brightness field; 50 and 30 are ties
ScenarioLevelSeq == <<0, 50, 100, 30, 75, 10, 99>>

ScenarioLevels == {ScenarioLevelSeq[i] : i \in 1..MaxScenarioLevels}

\* Scenario level (0..100) of the red, green and blue fields, each present or
\* absent on its own: the last of the sampled levels
ColorLevels == {ScenarioLevelSeq[MaxScenarioLevels]}

RECURSIVE BoolSeqs(_)
BoolSeqs(n) ==
    IF n = 0 THEN {<<>>}
    ELSE LET shorter == BoolSeqs(n - 1)
         IN  shorter \cup {Append(s, b) : s \in {t \in shorter : Len(t) = n - 1},
                                          b \in BOOLEAN}

\* the Light device objects the entity may be built from
LightDevices ==
    [unique_id : Opt({"light_1"}),
     is_rgb    : BOOLEAN,
     address   : BoolSeqs(MaxAddresses)]

(***************************************************************************)
(* Level mapper (light.py 31-38).                                          *)
(***************************************************************************)
\* int() in place of round(): the fraction is dropped
PyRound_floor(n, d) == n \div d

\* Python's round() of the float n / d, n >= 0, d > 0: to nearest, ties to even
PyRound(n, d) ==
    LET q == n \div d
        r == n % d
    IN  IF 2 * r < d THEN q
        ELSE IF 2 * r > d THEN q + 1
        ELSE IF q % 2 = 0 THEN q ELSE q + 1

\* the controller level cut down to an integer instead of rounded
to_scenario_level_truncating(level) == (level * 100) \div 255

to_scenario_level(level) == PyRound(level * 100, 255)

\* the host level cut down to an integer instead of rounded
to_hass_level_truncating(level) == (level * 255) \div 100

to_hass_level(level) == PyRound(level * 255, 100)

(***************************************************************************)
(* ScenarioLight.                                                          *)
(***************************************************************************)
\* for address in addresses: the mode is set again for every address, so the
\* last address decides; with no address the class default (None) stays
RECURSIVE AddressLoop(_, _)
AddressLoop(addresses, mode) ==
    IF addresses = <<>> THEN mode
    ELSE AddressLoop(Tail(addresses),
                     IF Head(addresses) THEN Some("BRIGHTNESS")
                     ELSE Some("ONOFF"))

ColorModeOf(device) ==
    IF ~device.is_rgb THEN AddressLoop(device.address, None)
    ELSE Some("RGBW")

\* ScenarioLight.__init__ (with ScenarioUpdatableEntity.__init__)
ScenarioLight_init(device, connected) ==
    [unique_id       |-> device.unique_id,
     attr_available  |-> connected,
     attr_brightness |-> 0,
     attr_rgbw_color |-> <<0, 0, 0, 0>>,
     attr_color_mode |-> ColorModeOf(device)]

\* ScaledColors with the white channel taken from the brightness argument
ScaledColors_brightness_on_white(brightness, kwargs) ==
    LET rgbw == kwargs.rgbw_color
        w    == IF brightness # None THEN to_scenario_level(brightness[1])
                ELSE 0
    IN  IF rgbw # None
        THEN <<to_scenario_level(rgbw[1][1]), to_scenario_level(rgbw[1][2]),
               to_scenario_level(rgbw[1][3]), w>>
        ELSE <<0, 0, 0, w>>

\* _async_set_brightness, lines 95-110: the array it resolves
ScaledColors(brightness, kwargs) ==
    LET b == IF brightness # None THEN Some(to_scenario_level(brightness[1]))
             ELSE None
        rgbw == kwargs.rgbw_color
    IN  IF rgbw # None
        THEN <<to_scenario_level(rgbw[1][1]), to_scenario_level(rgbw[1][2]),
               to_scenario_level(rgbw[1][3]), to_scenario_level(rgbw[1][4])>>
        ELSE <<0, 0, 0, IF b # None THEN b[1] ELSE 0>>

\* LightStateCalls without the test of the unique id
LightStateCalls_no_unique_id_test(dm, unique_id, scaled_colors) ==
    IF dm # None
    THEN <<[call      |-> "async_update_light_state",
            unique_id |-> unique_id,
            value     |-> scaled_colors]>>
    ELSE <<>>

\* _async_set_brightness, lines 112-117: the calls it issues
LightStateCalls(dm, unique_id, scaled_colors) ==
    IF dm # None /\ unique_id # None
    THEN <<[call      |-> "async_update_light_state",
            unique_id |-> unique_id,
            value     |-> scaled_colors]>>
    ELSE <<>>

\* TurnOnBrightness with "if not brightness" for "if brightness is None"
TurnOnBrightness_falsy(kwargs) ==
    IF kwargs.brightness = None \/ kwargs.brightness = Some(0)
    THEN Some(255)
    ELSE kwargs.brightness

\* async_turn_on, lines 121-124: brightness popped from kwargs, 255 if absent
TurnOnBrightness(kwargs) ==
    IF kwargs.brightness = None THEN Some(255) ELSE kwargs.brightness

\* async_turn_off, line 130: the keyword arguments it hands on
TurnOffKwargs(kwargs) == kwargs

\* LightAfterCallback with the brightness tested against the flag as it was
\* before the notification's available field was applied
LightAfterCallback_stale_flag(self, kwargs) ==
    LET brightness == kwargs.brightness
        available  == kwargs.available
        s1 == IF available # None
              THEN [self EXCEPT !.attr_available = available[1]]
              ELSE self
        s2 == IF brightness # None /\ self.attr_available
              THEN [s1 EXCEPT !.attr_brightness = to_hass_level(brightness[1])]
              ELSE s1
        c0 == s2.attr_rgbw_color
        c1 == IF kwargs.red # None
              THEN [c0 EXCEPT ![1] = to_hass_level(kwargs.red[1])] ELSE c0
        c2 == IF kwargs.green # None
              THEN [c1 EXCEPT ![2] = to_hass_level(kwargs.green[1])] ELSE c1
        c3 == IF kwargs.blue # None
              THEN [c2 EXCEPT ![3] = to_hass_level(kwargs.blue[1])] ELSE c2
        c4 == IF brightness # None
              THEN [c3 EXCEPT ![4] = to_hass_level(brightness[1])] ELSE c3
    IN  IF s2.attr_color_mode = Some("RGBW") /\ s2.attr_available
        THEN [s2 EXCEPT !.attr_rgbw_color = c4]
        ELSE s2

\* LightAfterCallback with new_colors started from [0,0,0,0] for every
\* notification, not from the stored tuple
LightAfterCallback_reset_channels(self, kwargs) ==
    LET brightness == kwargs.brightness
        available  == kwargs.available
        s1 == IF available # None
              THEN [self EXCEPT !.attr_available = available[1]]
              ELSE self
        s2 == IF brightness # None /\ s1.attr_available
              THEN [s1 EXCEPT !.attr_brightness = to_hass_level(brightness[1])]
              ELSE s1
        c0 == <<0, 0, 0, 0>>
        c1 == IF kwargs.red # None
              THEN [c0 EXCEPT ![1] = to_hass_level(kwargs.red[1])] ELSE c0
        c2 == IF kwargs.green # None
              THEN [c1 EXCEPT ![2] = to_hass_level(kwargs.green[1])] ELSE c1
        c3 == IF kwargs.blue # None
              THEN [c2 EXCEPT ![3] = to_hass_level(kwargs.blue[1])] ELSE c2
        c4 == IF brightness # None
              THEN [c3 EXCEPT ![4] = to_hass_level(brightness[1])] ELSE c3
    IN  IF s2.attr_color_mode = Some("RGBW") /\ s2.attr_available
        THEN [s2 EXCEPT !.attr_rgbw_color = c4]
        ELSE s2

\* LightAfterCallback that stores the colour fields whatever the colour mode
LightAfterCallback_any_mode(self, kwargs) ==
    LET brightness == kwargs.brightness
        available  == kwargs.available
        s1 == IF available # None
              THEN [self EXCEPT !.attr_available = available[1]]
              ELSE self
        s2 == IF brightness # None /\ s1.attr_available
              THEN [s1 EXCEPT !.attr_brightness = to_hass_level(brightness[1])]
              ELSE s1
        c0 == s2.attr_rgbw_color
        c1 == IF kwargs.red # None
              THEN [c0 EXCEPT ![1] = to_hass_level(kwargs.red[1])] ELSE c0
        c2 == IF kwargs.green # None
              THEN [c1 EXCEPT ![2] = to_hass_level(kwargs.green[1])] ELSE c1
        c3 == IF kwargs.blue # None
              THEN [c2 EXCEPT ![3] = to_hass_level(kwargs.blue[1])] ELSE c2
        c4 == IF brightness # None
              THEN [c3 EXCEPT ![4] = to_hass_level(brightness[1])] ELSE c3
    IN  IF s2.attr_available
        THEN [s2 EXCEPT !.attr_rgbw_color = c4]
        ELSE s2

\* LightAfterCallback that leaves the white channel as it was
LightAfterCallback_white_kept(self, kwargs) ==
    LET brightness == kwargs.brightness
        available  == kwargs.available
        s1 == IF available # None
              THEN [self EXCEPT !.attr_available = available[1]]
              ELSE self
        s2 == IF brightness # None /\ s1.attr_available
              THEN [s1 EXCEPT !.attr_brightness = to_hass_level(brightness[1])]
              ELSE s1
        c0 == s2.attr_rgbw_color
        c1 == IF kwargs.red # None
              THEN [c0 EXCEPT ![1] = to_hass_level(kwargs.red[1])] ELSE c0
        c2 == IF kwargs.green # None
              THEN [c1 EXCEPT ![2] = to_hass_level(kwargs.green[1])] ELSE c1
        c3 == IF kwargs.blue # None
              THEN [c2 EXCEPT ![3] = to_hass_level(kwargs.blue[1])] ELSE c2
    IN  IF s2.attr_color_mode = Some("RGBW") /\ s2.attr_available
        THEN [s2 EXCEPT !.attr_rgbw_color = c3]
        ELSE s2

\* async_update_callback, lines 138-167: the entity after the notification
LightAfterCallback(self, kwargs) ==
    LET brightness == kwargs.brightness
        available  == kwargs.available
        s1 == IF available # None
              THEN [self EXCEPT !.attr_available = available[1]]
              ELSE self
        s2 == IF brightness # None /\ s1.attr_available
              THEN [s1 EXCEPT !.attr_brightness = to_hass_level(brightness[1])]
              ELSE s1
        c0 == s2.attr_rgbw_color
        c1 == IF kwargs.red # None
              THEN [c0 EXCEPT ![1] = to_hass_level(kwargs.red[1])] ELSE c0
        c2 == IF kwargs.green # None
              THEN [c1 EXCEPT ![2] = to_hass_level(kwargs.green[1])] ELSE c1
        c3 == IF kwargs.blue # None
              THEN [c2 EXCEPT ![3] = to_hass_level(kwargs.blue[1])] ELSE c2
        c4 == IF brightness # None
              THEN [c3 EXCEPT ![4] = to_hass_level(brightness[1])] ELSE c3
    IN  IF s2.attr_color_mode = Some("RGBW") /\ s2.attr_available
        THEN [s2 EXCEPT !.attr_rgbw_color = c4]
        ELSE s2

\* keyword arguments of the light commands
LightCommandKwargs ==
    [brightness : Opt(HassLevels), rgbw_color : Opt(RgbwColors)]

\* keyword arguments of async_turn_off and _async_set_brightness, whose
\* brightness is the positional argument: a second brightness among the
\* keywords is a TypeError of the call itself and is not an input here
LightColorKwargs == [rgbw_color : Opt(RgbwColors)]

\* fields of a light notification
LightNotifications ==
    [available  : Opt(BOOLEAN),
     brightness : Opt(ScenarioLevels),
     red        : Opt(ColorLevels),
     green      : Opt(ColorLevels),
     blue       : Opt(ColorLevels)]

\* _async_set_brightness that keeps the stored colour of an RGBW light when
\* the command names none
SetBrightnessCalls_stored_colour(self, dm, brightness, kwargs) ==
    LightStateCalls(dm, self.unique_id,
        IF kwargs.rgbw_color = None /\ self.attr_color_mode = Some("RGBW")
        THEN <<to_scenario_level(self.attr_rgbw_color[1]),
               to_scenario_level(self.attr_rgbw_color[2]),
               to_scenario_level(self.attr_rgbw_color[3]),
               ScaledColors(brightness, kwargs)[4]>>
        ELSE ScaledColors(brightness, kwargs))

\* _async_set_brightness, lines 91-117
SetBrightnessCalls(self, dm, brightness, kwargs) ==
    LightStateCalls(dm, self.unique_id, ScaledColors(brightness, kwargs))

(***************************************************************************)
(* ScenarioCover.                                                          *)
(***************************************************************************)
\* pyscenario's command and state codes in a cover notification, and one
\* value that is none of them
CoverCommands ==
    {"IFSEI_COVER_DOWN", "IFSEI_COVER_UP", "IFSEI_COVER_STOP", "other"}

SceneStates ==
    {"IFSEI_ATTR_SCENE_ACTIVE", "IFSEI_ATTR_SCENE_INACTIVE", "other"}

\* the up/down/stop codes of the Cover device object when the entity is built
CoverInitialCodes == [up |-> "0002", down |-> "0003", stop |-> "0004"]

\* the codes the device object may carry later
CoverCodes ==
    {CoverInitialCodes,
     [up |-> "0012", down |-> "0013", stop |-> "0014"],
     [up |-> "0003", down |-> "0002", stop |-> "0004"]}

\* the Cover device objects the entity may be built from
CoverDevices ==
    {[unique_id |-> u, up |-> CoverInitialCodes.up,
      down |-> CoverInitialCodes.down, stop |-> CoverInitialCodes.stop] :
        u \in Opt({"cover_1"})}

\* ScenarioCover.__init__ (with ScenarioUpdatableEntity.__init__);
\* is_opening and is_closing keep CoverEntity's class default, None
ScenarioCover_init(device, connected) ==
    [unique_id       |-> device.unique_id,
     up              |-> device.up,
     stop            |-> device.stop,
     down            |-> device.down,
     attr_is_closed  |-> TRUE,
     attr_is_opening |-> None,
     attr_is_closing |-> None,
     attr_available  |-> connected]

\* self._ifsei.device_manager.async_update_cover_state(self.unique_id, code):
\* the attribute lookup on a None device_manager raises AttributeError
CoverStateCall(dm, unique_id, code) ==
    IF dm = None
    THEN [sent |-> <<>>, raised |-> Some("AttributeError")]
    ELSE [sent   |-> <<[call      |-> "async_update_cover_state",
                        unique_id |-> unique_id,
                        value     |-> code]>>,
          raised |-> None]

\* OpenCode read from the device object when the command runs
OpenCode_live(self, device) == device.up

\* the codes the three commands send: the entity's own copies (self.up,
\* self.down, self.stop), not the device object's attributes
OpenCode(self, device) == self.up

CloseCode(self, device) == self.down

StopCode(self, device) == self.stop

\* CoverAfterCallback with stop honoured for the active state only
CoverAfterCallback_stop_active_only(self, kwargs) ==
    LET available == kwargs.available
        command   == kwargs.command
        state     == kwargs.state
        s1 == IF available # None
              THEN [self EXCEPT !.attr_available = available[1]]
              ELSE self
    IN  IF command # None /\ state # None
        THEN IF command[1] = "IFSEI_COVER_DOWN"
                /\ state[1] = "IFSEI_ATTR_SCENE_ACTIVE"
             THEN [s1 EXCEPT !.attr_is_closed = TRUE]
             ELSE IF command[1] = "IFSEI_COVER_UP"
                     /\ state[1] = "IFSEI_ATTR_SCENE_ACTIVE"
             THEN [s1 EXCEPT !.attr_is_closed = FALSE]
             ELSE IF command[1] = "IFSEI_COVER_STOP"
                     /\ state[1] = "IFSEI_ATTR_SCENE_ACTIVE"
             THEN [s1 EXCEPT !.attr_is_closing = Some(FALSE),
                             !.attr_is_opening = Some(FALSE)]
             ELSE s1
        ELSE s1

\* CoverAfterCallback with down and up honoured whatever the state
CoverAfterCallback_any_state(self, kwargs) ==
    LET available == kwargs.available
        command   == kwargs.command
        state     == kwargs.state
        s1 == IF available # None
              THEN [self EXCEPT !.attr_available = available[1]]
              ELSE self
    IN  IF command # None /\ state # None
        THEN IF command[1] = "IFSEI_COVER_DOWN"
             THEN [s1 EXCEPT !.attr_is_closed = TRUE]
             ELSE IF command[1] = "IFSEI_COVER_UP"
             THEN [s1 EXCEPT !.attr_is_closed = FALSE]
             ELSE IF command[1] = "IFSEI_COVER_STOP"
                     /\ state[1] \in {"IFSEI_ATTR_SCENE_ACTIVE",
                                      "IFSEI_ATTR_SCENE_INACTIVE"}
             THEN [s1 EXCEPT !.attr_is_closing = Some(FALSE),
                             !.attr_is_opening = Some(FALSE)]
             ELSE s1
        ELSE s1

\* CoverAfterCallback that shows the movement while a scene is active
CoverAfterCallback_tracks_motion(self, kwargs) ==
    LET available == kwargs.available
        command   == kwargs.command
        state     == kwargs.state
        s1 == IF available # None
              THEN [self EXCEPT !.attr_available = available[1]]
              ELSE self
    IN  IF command # None /\ state # None
        THEN IF command[1] = "IFSEI_COVER_DOWN"
                /\ state[1] = "IFSEI_ATTR_SCENE_ACTIVE"
             THEN [s1 EXCEPT !.attr_is_closed = TRUE,
                             !.attr_is_closing = Some(TRUE)]
             ELSE IF command[1] = "IFSEI_COVER_UP"
                     /\ state[1] = "IFSEI_ATTR_SCENE_ACTIVE"
             THEN [s1 EXCEPT !.attr_is_closed = FALSE,
                             !.attr_is_opening = Some(TRUE)]
             ELSE IF command[1] = "IFSEI_COVER_STOP"
                     /\ state[1] \in {"IFSEI_ATTR_SCENE_ACTIVE",
                                      "IFSEI_ATTR_SCENE_INACTIVE"}
             THEN [s1 EXCEPT !.attr_is_closing = Some(FALSE),
                             !.attr_is_opening = Some(FALSE)]
             ELSE s1
        ELSE s1

\* async_update_callback, lines 91-108: the entity after the notification
CoverAfterCallback(self, kwargs) ==
    LET available == kwargs.available
        command   == kwargs.command
        state     == kwargs.state
        s1 == IF available # None
              THEN [self EXCEPT !.attr_available = available[1]]
              ELSE self
    IN  IF command # None /\ state # None
        THEN IF command[1] = "IFSEI_COVER_DOWN"
                /\ state[1] = "IFSEI_ATTR_SCENE_ACTIVE"
             THEN [s1 EXCEPT !.attr_is_closed = TRUE]
             ELSE IF command[1] = "IFSEI_COVER_UP"
                     /\ state[1] = "IFSEI_ATTR_SCENE_ACTIVE"
             THEN [s1 EXCEPT !.attr_is_closed = FALSE]
             ELSE IF command[1] = "IFSEI_COVER_STOP"
                     /\ state[1] \in {"IFSEI_ATTR_SCENE_ACTIVE",
                                      "IFSEI_ATTR_SCENE_INACTIVE"}
             THEN [s1 EXCEPT !.attr_is_closing = Some(FALSE),
                             !.attr_is_opening = Some(FALSE)]
             ELSE s1
        ELSE s1

\* fields of a cover notification
CoverNotifications ==
    [available : Opt(BOOLEAN),
     command   : Opt(CoverCommands),
     state     : Opt(SceneStates)]

(***************************************************************************)
(* ScenarioUpdatableEntity and the device object's subscriber list.        *)
(***************************************************************************)
\* device.add_subscriber(callback), light.py 63 and cover.py 60
add_subscriber(callbacks, callback) == Append(callbacks, callback)

\* device.remove_subscriber(), light.py 134 and cover.py 87
remove_subscriber(callbacks) == <<>>

\* the available property read from the cached flag
available_cached(self) == self.attr_available

\* ScenarioUpdatableEntity.available, __init__.py 184-187
available(self) == is_connected

\* async_write_ha_state skipped when the notification changed nothing
WrittenStates_only_changes(before, after) ==
    IF before = after THEN <<>> ELSE <<after>>

\* self.async_write_ha_state() as the callbacks' last statement: the states
\* written, given the entity before and after the field updates
WrittenStates(before, after) == <<after>>

(***************************************************************************)
(* async_setup_entry (__init__.py 49-129).                                 *)
(***************************************************************************)
\* const.py 23-25; the send delay 0.2 is kept as the text of the literal
DEFAULT_RECONNECT_DELAY == 30

DEFAULT_RECONNECT == TRUE

DEFAULT_SEND_DELAY == "0.2"

\* option values a user may have saved
SendDelays == {"0.2", "0.5"}

ReconnectDelays == {DEFAULT_RECONNECT_DELAY, 5}

ConfigEntryOptions ==
    [delay           : Opt(SendDelays),
     reconnect       : Opt(BOOLEAN),
     reconnect_delay : Opt(ReconnectDelays)]

\* what ifsei.load_devices and ifsei.async_connect may do
LoadOutcomes == {"ok", "vol.Invalid", "no_device_manager"}

ConnectOutcomes == {"ok", "ConnectionRefusedError", "TimeoutError"}

\* dict.get(key, default) on the entry's options
OptionsGet(option, default) == IF option # None THEN option[1] ELSE default

\* hass.data[DOMAIN][entry_id] before anything is stored in it
EmptyEntryData ==
    [delay |-> None, reconnect |-> None, reconnect_delay |-> None,
     controller |-> None, lights |-> None, covers |-> None]

\* a config entry that was created and not yet set up; stored tells whether
\* hass.data[DOMAIN] has the entry's id as a key, data is the value under it
NewConfigEntry(options, unique_id) ==
    [state |-> "NOT_LOADED", options |-> options, unique_id |-> unique_id,
     stored |-> FALSE, data |-> EmptyEntryData, calls |-> <<>>]

Call(name, value) == [call |-> name, value |-> value]

\* entry_data after lines 60-66
LoadOptions(e) ==
    [e.data EXCEPT
        !.delay = Some(OptionsGet(e.options.delay, DEFAULT_SEND_DELAY)),
        !.reconnect = Some(OptionsGet(e.options.reconnect, DEFAULT_RECONNECT)),
        !.reconnect_delay =
            Some(OptionsGet(e.options.reconnect_delay,
                            DEFAULT_RECONNECT_DELAY))]

\* only a validation error of the device file ends the setup
LoadAborts_invalid_only(load) == load = "vol.Invalid"

\* lines 78-88: return False on vol.Invalid or on a missing device manager
LoadAborts(load) == load \in {"vol.Invalid", "no_device_manager"}

\* only the timeout is caught, a refused connection propagates as it is
RaisedOnConnect_timeout_only(connect) ==
    IF connect = "TimeoutError" THEN Some("ConfigEntryNotReady")
    ELSE IF connect = "ConnectionRefusedError" THEN Some(connect)
    ELSE None

\* lines 90-95: ConnectionRefusedError and TimeoutError of async_connect are
\* raised again as ConfigEntryNotReady
RaisedOnConnect(connect) ==
    IF connect \in {"ConnectionRefusedError", "TimeoutError"}
    THEN Some("ConfigEntryNotReady")
    ELSE None

\* the host's config_entries.async_setup: the entry state it sets from what
\* async_setup_entry returned or raised
EntryStateAfter(result, exception) ==
    IF exception = Some("ConfigEntryNotReady") THEN "SETUP_RETRY"
    ELSE IF exception # None THEN "SETUP_ERROR"
    ELSE IF result = Some(TRUE) THEN "LOADED"
    ELSE "SETUP_ERROR"

\* how one run of async_setup_entry ends: the entry, the controller, the
\* value returned and the exception raised
SetupEffect(e, data, calls, unique_id, dm, connected, result, exception) ==
    [entry |-> [e EXCEPT !.stored = TRUE, !.data = data, !.calls = calls,
                         !.unique_id = unique_id,
                         !.state = EntryStateAfter(result, exception)],
     device_manager |-> dm,
     is_connected |-> connected,
     result |-> result,
     raised |-> exception]

\* the platforms forwarded before the controller and the lists are stored
StoreAndForward_forward_first(data, calls) ==
    [data |-> [data EXCEPT !.controller = Some("ifsei"),
                           !.lights = Some("lights"),
                           !.covers = Some("covers")],
     calls |-> calls
                 \o <<Call("add_update_listener", None),
                      Call("async_forward_entry_setups", Some(data)),
                      Call("store", Some("controller")),
                      Call("store", Some("lights")),
                      Call("store", Some("covers"))>>]

\* lines 105-127: the three stores into entry_data, the update listener and
\* the forwarding of the platforms, whose setup reads entry_data (light.py
\* 44-46): the forward call carries the entry data as it is at that moment
StoreAndForward(data, calls) ==
    LET stored == [data EXCEPT !.controller = Some("ifsei"),
                               !.lights = Some("lights"),
                               !.covers = Some("covers")]
    IN  [data |-> stored,
         calls |-> calls
                     \o <<Call("store", Some("controller")),
                          Call("store", Some("lights")),
                          Call("store", Some("covers")),
                          Call("add_update_listener", None),
                          Call("async_forward_entry_setups", Some(stored))>>]

\* lines 98-129, after async_connect returned
SetupAfterConnect(e, data, calls, dm) ==
    LET calls_98  == Append(calls, Call("set_send_delay", data.delay))
        calls_101 == IF e.unique_id = None
                     THEN Append(calls_98, Call("async_update_entry",
                                                Some("device_id")))
                     ELSE calls_98
        unique_id == IF e.unique_id = None THEN Some("device_id")
                     ELSE e.unique_id
        calls_103 == Append(calls_101, Call("register_device", None))
    IN  IF dm = None
        THEN \* ifsei.device_manager.get_devices_by_type on None, line 106
             SetupEffect(e, [data EXCEPT !.controller = Some("ifsei")],
                         Append(calls_103, Call("store", Some("controller"))),
                         unique_id, dm, TRUE, None,
                         Some("AttributeError"))
        ELSE SetupEffect(e, StoreAndForward(data, calls_103).data,
                         StoreAndForward(data, calls_103).calls,
                         unique_id, dm, TRUE, Some(TRUE), None)

\* async_setup_entry, given what load_devices and async_connect do
SetupEntry(e, load, connect) ==
    LET data  == LoadOptions(e)
        ifsei == Call("IFSEI", Some(<<data.reconnect, data.reconnect_delay>>))
        calls_81 == <<ifsei, Call("load_devices", None)>>
        dm    == IF load = "ok" THEN Some("device_manager") ELSE None
        calls_92 == Append(calls_81, Call("async_connect", None))
    IN  IF LoadAborts(load)
        THEN SetupEffect(e, data, calls_81, e.unique_id, dm, FALSE,
                         Some(FALSE), None)
        ELSE IF RaisedOnConnect(connect) # None
        THEN SetupEffect(e, data, calls_92, e.unique_id, dm, FALSE,
                         None, RaisedOnConnect(connect))
        ELSE SetupAfterConnect(e, data, calls_92, dm)

(***************************************************************************)
(* update_listener (__init__.py 109-123).                                  *)
(***************************************************************************)
\* the listener's default for the reconnect delay, line 117
ListenerReconnectDelay == 5

\* the listener's default for the reconnect flag, line 115
ListenerReconnect == TRUE

\* the listener's default for the send delay is pyscenario's constant
\* IFSEI_ATTR_SEND_DELAY, whose value the library decides: the setup's
\* default or something else
SendDelayAttrValues == {DEFAULT_SEND_DELAY, "IFSEI_ATTR_SEND_DELAY"}

\* update_listener on the entry e: the three values stored in entry_data
\* and the two calls on the controller
UpdateListener(e, send_delay_attr) ==
    LET delay == OptionsGet(e.options.delay, send_delay_attr)
        reconnect == OptionsGet(e.options.reconnect, ListenerReconnect)
        reconnect_delay == OptionsGet(e.options.reconnect_delay,
                                      ListenerReconnectDelay)
    IN  [e EXCEPT
            !.data = [@ EXCEPT !.delay = Some(delay),
                               !.reconnect = Some(reconnect),
                               !.reconnect_delay = Some(reconnect_delay)],
            !.calls = <<Call("set_send_delay", Some(delay)),
                        Call("set_reconnect_options",
                             Some(<<reconnect, reconnect_delay>>))>>]

(***************************************************************************)
(* async_unload_entry (__init__.py 150-157).                               *)
(***************************************************************************)
\* what ifsei.async_close may do
CloseOutcomes == {"ok", "Exception"}

\* the entry data is dropped whatever the platforms answered
PopsEntryData_always(unload_ok) == TRUE

\* lines 155-156: hass.data[DOMAIN].pop(entry_id) only if unload_ok
PopsEntryData(unload_ok) == unload_ok

\* the host's config_entries.async_unload: the entry state it sets from what
\* async_unload_entry returned or raised
EntryStateAfterUnload(result, exception) ==
    IF exception # None THEN "FAILED_UNLOAD"
    ELSE IF result = Some(TRUE) THEN "NOT_LOADED"
    ELSE "LOADED"

\* async_unload_entry of a loaded entry, given what async_close does and
\* what async_unload_platforms returns
UnloadEntry(e, connected, close, unload_ok) ==
    LET calls_154 == <<Call("async_close", None)>>
        calls_155 == Append(calls_154,
                            Call("async_unload_platforms", Some(unload_ok)))
    IN  IF close # "ok"
        THEN [entry |-> [e EXCEPT
                            !.calls = calls_154,
                            !.state = EntryStateAfterUnload(None, Some(close))],
              is_connected |-> connected,
              result |-> None,
              raised |-> Some(close)]
        ELSE [entry |-> [e EXCEPT
                            !.calls = calls_155,
                            !.stored = IF PopsEntryData(unload_ok) THEN FALSE
                                       ELSE @,
                            !.data = IF PopsEntryData(unload_ok)
                                     THEN EmptyEntryData ELSE @,
                            !.state = EntryStateAfterUnload(Some(unload_ok),
                                                            None)],
              is_connected |-> FALSE,
              result |-> Some(unload_ok),
              raised |-> None]

\* the entry the entities below belong to: set up with no options saved
LoadedEntry ==
    SetupEntry(NewConfigEntry([delay |-> None, reconnect |-> None,
                               reconnect_delay |-> None],
                              Some("already_has_id")),
               "ok", "ok").entry

(***************************************************************************)
(* ScenarioConfigFlow.async_step_user (config_flow.py 71-105).             *)
(* A host is the sequence of the decimal fields of the text between its    *)
(* dots, <<>> for a text that has none; a port is None for a text that is  *)
(* no number and Some(n) for the text of the integer n.                    *)
(***************************************************************************)
\* const.py 15-16
MIN_PORT_NUMBER == 0

MAX_PORT_NUMBER == 65535

\* "192.168.1.1", "192.168.1", "192.168.1.256", "invalid_ip"
Hosts == {<<192, 168, 1, 1>>, <<192, 168, 1>>, <<192, 168, 1, 256>>, <<>>}

\* "1", "65535", "28000", "70000", "-1", "invalid_port"
Ports == {Some(1), Some(MAX_PORT_NUMBER), Some(28000), Some(70000),
          Some(-1), None}

\* PROTOCOLS, config_flow.py 32-35
Protocols == {"TCP", "UDP"}

\* what scenario.ifsei.get_device_id() may return
ControllerIds == {"ifsei_a", "ifsei_b"}

UserInputs == [host : Hosts, port : Ports, protocol : Protocols]

\* IPv4Address(text) does not raise AddressValueError
IPv4Address(host) ==
    /\ Len(host) = 4
    /\ \A i \in 1..4 : host[i] \in 0..255

\* a config entry as the host keeps it
FlowEntry(unique_id, user_input, controller_unique_id) ==
    [unique_id |-> unique_id,
     host |-> user_input.host,
     port |-> user_input.port,
     protocol |-> user_input.protocol,
     controller_unique_id |-> controller_unique_id]

\* the flow's unique id: async_step_user never calls async_set_unique_id,
\* so it is the host's default
FlowUniqueId == None

\* self._abort_if_unique_id_configured(), line 92: the host aborts the flow
\* when the flow has a unique id and an entry of the domain carries it
AbortIfUniqueIdConfigured(unique_id, current_entries) ==
    /\ unique_id # None
    /\ \E i \in 1..Len(current_entries) :
          current_entries[i].unique_id = unique_id

FlowResult(type, errors, reason) ==
    [type |-> type, errors |-> errors, reason |-> reason]

\* errors after lines 84-88
UserStepErrors(user_input) ==
    IF IPv4Address(user_input.host) THEN None ELSE Some("invalid_ip")

\* async_step_user: the flow result and the entries of the domain afterwards
StepUser(current_entries, user_input, device_id) ==
    IF user_input = None
    THEN [result |-> FlowResult("form", None, None),
          entries |-> current_entries]
    ELSE IF UserStepErrors(user_input[1]) # None
    THEN [result |-> FlowResult("form", UserStepErrors(user_input[1]), None),
          entries |-> current_entries]
    ELSE IF AbortIfUniqueIdConfigured(FlowUniqueId, current_entries)
    THEN [result |-> FlowResult("abort", None, Some("already_configured")),
          entries |-> current_entries]
    ELSE [result |-> FlowResult("create_entry", None, None),
          entries |-> Append(current_entries,
                             FlowEntry(FlowUniqueId, user_input[1],
                                       device_id))]

\* the entry the test suite sets up (test_init.py 64-78)
DefaultFlowEntry ==
    FlowEntry(Some("already_has_id"),
              [host |-> <<127, 0, 0, 1>>, port |-> Some(1234),
               protocol |-> "TCP"],
              "ifsei_a")

(***************************************************************************)
(* Initial states: the entities as their constructors leave them.          *)
(***************************************************************************)
DefaultLightDevice ==
    [unique_id |-> Some("light_1"), is_rgb |-> TRUE, address |-> <<>>]

DefaultCoverDevice ==
    [unique_id |-> Some("cover_1"), up |-> CoverInitialCodes.up,
     down |-> CoverInitialCodes.down, stop |-> CoverInitialCodes.stop]

InitController ==
    /\ is_connected \in BOOLEAN
    /\ device_manager \in Opt({"device_manager"})
    /\ sent = <<>>
    /\ raised = None
    /\ ha_writes = <<>>
    /\ entry = LoadedEntry
    /\ config_entries = <<DefaultFlowEntry>>

\* a ScenarioLight was built from a Light device and added; no cover was
\* built (the cover record is a placeholder no handler runs on)
InitLight ==
    /\ InitController
    /\ \E device \in LightDevices :
           /\ light = ScenarioLight_init(device, is_connected)
           /\ last = [op |-> "__init__", device |-> device]
    /\ cover_device = DefaultCoverDevice
    /\ cover = ScenarioCover_init(DefaultCoverDevice, is_connected)
    /\ entities = [light |-> "added", cover |-> "none"]
    /\ subscribers =
           [light |-> add_subscriber(<<>>, "light.async_update_callback"),
            cover |-> <<>>]

\* a ScenarioCover was built from a Cover device and added; no light was
\* built (the light record is a placeholder no handler runs on)
InitCover ==
    /\ InitController
    /\ light = ScenarioLight_init(DefaultLightDevice, is_connected)
    /\ cover_device \in CoverDevices
    /\ cover = ScenarioCover_init(cover_device, is_connected)
    /\ last = [op |-> "__init__", device |-> cover_device]
    /\ entities = [light |-> "none", cover |-> "added"]
    /\ subscribers =
           [light |-> <<>>,
            cover |-> add_subscriber(<<>>, "cover.async_update_callback")]

(***************************************************************************)
(* The controller handle, changed by the pyscenario library.               *)
(***************************************************************************)
ControllerChange ==
    /\ is_connected' \in BOOLEAN
    /\ device_manager' \in Opt({"device_manager"})
    /\ <<is_connected', device_manager'>> # <<is_connected, device_manager>>
    /\ last' = [op |-> "controller"]
    /\ sent' = <<>>
    /\ raised' = None
    /\ ha_writes' = <<>>
    /\ UNCHANGED <<light, cover, cover_device, entities, subscribers, entry,
                   config_entries>>

(***************************************************************************)
(* Light handlers.                                                         *)
(***************************************************************************)
ScenarioLight_async_set_brightness(brightness, kwargs) ==
    /\ entities.light = "added"
    /\ sent' = SetBrightnessCalls(light, device_manager, brightness, kwargs)
    /\ raised' = None
    /\ ha_writes' = <<>>
    /\ last' = [op |-> "_async_set_brightness",
                brightness |-> brightness, kwargs |-> kwargs]
    /\ UNCHANGED <<is_connected, device_manager, light, cover, cover_device,
                 entities, subscribers, entry, config_entries>>

ScenarioLight_async_turn_on(kwargs) ==
    /\ entities.light = "added"
    /\ sent' = SetBrightnessCalls(light, device_manager,
                                  TurnOnBrightness(kwargs),
                                  [rgbw_color |-> kwargs.rgbw_color])
    /\ raised' = None
    /\ ha_writes' = <<>>
    /\ last' = [op |-> "async_turn_on", kwargs |-> kwargs]
    /\ UNCHANGED <<is_connected, device_manager, light, cover, cover_device,
                 entities, subscribers, entry, config_entries>>

ScenarioLight_async_turn_off(kwargs) ==
    /\ entities.light = "added"
    /\ sent' = SetBrightnessCalls(light, device_manager, Some(0),
                                  TurnOffKwargs(kwargs))
    /\ raised' = None
    /\ ha_writes' = <<>>
    /\ last' = [op |-> "async_turn_off", kwargs |-> kwargs]
    /\ UNCHANGED <<is_connected, device_manager, light, cover, cover_device,
                 entities, subscribers, entry, config_entries>>

\* the device object calls the callbacks registered on it
ScenarioLight_async_update_callback(kwargs) ==
    /\ \E i \in 1..Len(subscribers.light) :
           subscribers.light[i] = "light.async_update_callback"
    /\ light' = LightAfterCallback(light, kwargs)
    /\ ha_writes' = WrittenStates(light, light')
    /\ sent' = <<>>
    /\ raised' = None
    /\ last' = [op |-> "light.async_update_callback", kwargs |-> kwargs]
    /\ UNCHANGED <<is_connected, device_manager, cover, cover_device,
                 entities, subscribers, entry, config_entries>>

\* async_will_remove_from_hass that leaves the callback registered
ScenarioLight_async_will_remove_from_hass_keeps_callback ==
    /\ entities.light = "added"
    /\ entities' = [entities EXCEPT !.light = "removed"]
    /\ last' = [op |-> "light.async_will_remove_from_hass"]
    /\ sent' = <<>>
    /\ raised' = None
    /\ ha_writes' = <<>>
    /\ UNCHANGED <<is_connected, device_manager, light, cover, cover_device,
                   subscribers, entry, config_entries>>

\* ScenarioLight.async_will_remove_from_hass, called when the entity is
\* removed
ScenarioLight_async_will_remove_from_hass ==
    /\ entities.light = "added"
    /\ subscribers' = [subscribers EXCEPT !.light = remove_subscriber(@)]
    /\ entities' = [entities EXCEPT !.light = "removed"]
    /\ last' = [op |-> "light.async_will_remove_from_hass"]
    /\ sent' = <<>>
    /\ raised' = None
    /\ ha_writes' = <<>>
    /\ UNCHANGED <<is_connected, device_manager, light, cover, cover_device,
                   entry, config_entries>>

NextLight ==
    \/ ControllerChange
    \/ ScenarioLight_async_will_remove_from_hass
    \/ \E b \in Opt(HassLevels), kwargs \in LightColorKwargs :
           ScenarioLight_async_set_brightness(b, kwargs)
    \/ \E kwargs \in LightCommandKwargs : ScenarioLight_async_turn_on(kwargs)
    \/ \E kwargs \in LightColorKwargs : ScenarioLight_async_turn_off(kwargs)
    \/ \E kwargs \in LightNotifications :
           ScenarioLight_async_update_callback(kwargs)

SpecLight == InitLight /\ [][NextLight]_vars

(***************************************************************************)
(* Cover handlers.                                                         *)
(***************************************************************************)
CoverCommand(op, code) ==
    LET effect == CoverStateCall(device_manager, cover.unique_id, code)
    IN  /\ entities.cover = "added"
        /\ sent' = effect.sent
        /\ raised' = effect.raised
        /\ ha_writes' = <<>>
        /\ last' = [op |-> op]
        /\ UNCHANGED <<is_connected, device_manager, light, cover,
                       cover_device, entities, subscribers, entry,
                       config_entries>>

\* async_open_cover that marks the cover as opening when it sends the command
ScenarioCover_async_open_cover_optimistic ==
    LET effect == CoverStateCall(device_manager, cover.unique_id,
                                 OpenCode(cover, cover_device))
    IN  /\ entities.cover = "added"
        /\ sent' = effect.sent
        /\ raised' = effect.raised
        /\ ha_writes' = <<>>
        /\ last' = [op |-> "async_open_cover"]
        /\ cover' = [cover EXCEPT !.attr_is_opening = Some(TRUE)]
        /\ UNCHANGED <<is_connected, device_manager, light, cover_device,
                       entities, subscribers, entry, config_entries>>

ScenarioCover_async_open_cover ==
    CoverCommand("async_open_cover", OpenCode(cover, cover_device))

ScenarioCover_async_close_cover ==
    CoverCommand("async_close_cover", CloseCode(cover, cover_device))

ScenarioCover_async_stop_cover ==
    CoverCommand("async_stop_cover", StopCode(cover, cover_device))

\* the device object calls the callbacks registered on it
ScenarioCover_async_update_callback(kwargs) ==
    /\ \E i \in 1..Len(subscribers.cover) :
           subscribers.cover[i] = "cover.async_update_callback"
    /\ cover' = CoverAfterCallback(cover, kwargs)
    /\ ha_writes' = WrittenStates(cover, cover')
    /\ sent' = <<>>
    /\ raised' = None
    /\ last' = [op |-> "cover.async_update_callback", kwargs |-> kwargs]
    /\ UNCHANGED <<is_connected, device_manager, light, cover_device,
                 entities, subscribers, entry, config_entries>>

\* ScenarioCover.async_will_remove_from_hass, called when the entity is
\* removed
ScenarioCover_async_will_remove_from_hass ==
    /\ entities.cover = "added"
    /\ subscribers' = [subscribers EXCEPT !.cover = remove_subscriber(@)]
    /\ entities' = [entities EXCEPT !.cover = "removed"]
    /\ last' = [op |-> "cover.async_will_remove_from_hass"]
    /\ sent' = <<>>
    /\ raised' = None
    /\ ha_writes' = <<>>
    /\ UNCHANGED <<is_connected, device_manager, light, cover, cover_device,
                   entry, config_entries>>

\* the pyscenario library gives the Cover device object other command codes
CoverDeviceChange ==
    /\ entities.cover # "none"
    /\ \E c \in CoverCodes :
           /\ cover_device' = [cover_device EXCEPT !.up = c.up,
                                                  !.down = c.down,
                                                  !.stop = c.stop]
           /\ cover_device' # cover_device
    /\ last' = [op |-> "cover_device"]
    /\ sent' = <<>>
    /\ raised' = None
    /\ ha_writes' = <<>>
    /\ UNCHANGED <<is_connected, device_manager, light, cover, entities,
                 subscribers, entry, config_entries>>

NextCover ==
    \/ ControllerChange
    \/ ScenarioCover_async_will_remove_from_hass
    \/ CoverDeviceChange
    \/ ScenarioCover_async_open_cover
    \/ ScenarioCover_async_close_cover
    \/ ScenarioCover_async_stop_cover
    \/ \E kwargs \in CoverNotifications :
           ScenarioCover_async_update_callback(kwargs)

SpecCover == InitCover /\ [][NextCover]_vars

Init == InitLight \/ InitCover

Next == NextLight \/ NextCover

Spec == Init /\ [][Next]_vars

(***************************************************************************)
(* Setting up a config entry.                                              *)
(***************************************************************************)
\* a config entry was created by the config flow; no controller, no entity
InitSetup ==
    /\ is_connected = FALSE
    /\ device_manager = None
    /\ light = ScenarioLight_init(DefaultLightDevice, is_connected)
    /\ cover_device = DefaultCoverDevice
    /\ cover = ScenarioCover_init(DefaultCoverDevice, is_connected)
    /\ entities = [light |-> "none", cover |-> "none"]
    /\ subscribers = [light |-> <<>>, cover |-> <<>>]
    /\ last = [op |-> "config_flow"]
    /\ sent = <<>>
    /\ raised = None
    /\ ha_writes = <<>>
    /\ \E options \in ConfigEntryOptions,
          unique_id \in Opt({"already_has_id"}) :
           /\ entry = NewConfigEntry(options, unique_id)
           /\ config_entries =
                  <<[DefaultFlowEntry EXCEPT !.unique_id = unique_id]>>

\* the host sets the entry up, the first time or again after SETUP_RETRY
async_setup_entry(load, connect) ==
    LET effect == SetupEntry(entry, load, connect)
    IN  /\ entry.state \in {"NOT_LOADED", "SETUP_RETRY"}
        /\ entry' = effect.entry
        /\ device_manager' = effect.device_manager
        /\ is_connected' = effect.is_connected
        /\ raised' = effect.raised
        /\ last' = [op |-> "async_setup_entry", load |-> load,
                    connect |-> IF LoadAborts(load) THEN "not attempted"
                                ELSE connect,
                    result |-> effect.result]
        /\ sent' = <<>>
        /\ ha_writes' = <<>>
        /\ UNCHANGED <<light, cover, cover_device, entities, subscribers,
                       config_entries>>

\* the host unloads the loaded entry
async_unload_entry(close, unload_ok) ==
    LET effect == UnloadEntry(entry, is_connected, close, unload_ok)
    IN  /\ entry.state = "LOADED"
        /\ entry' = effect.entry
        /\ is_connected' = effect.is_connected
        /\ raised' = effect.raised
        /\ last' = [op |-> "async_unload_entry", close |-> close,
                    unload_ok |-> unload_ok, result |-> effect.result]
        /\ sent' = <<>>
        /\ ha_writes' = <<>>
        /\ UNCHANGED <<device_manager, light, cover, cover_device, entities,
                       subscribers, config_entries>>

\* the host updated the loaded entry, its options becoming the given ones
\* (the same as before when something else of the entry changed), and runs
\* the listener that async_setup_entry registered
update_listener(options, send_delay_attr) ==
    /\ entry.state = "LOADED"
    /\ entry' = UpdateListener([entry EXCEPT !.options = options],
                               send_delay_attr)
    /\ last' = [op |-> "update_listener", options_before |-> entry.options,
                data_before |-> entry.data]
    /\ sent' = <<>>
    /\ raised' = None
    /\ ha_writes' = <<>>
    /\ UNCHANGED <<is_connected, device_manager, light, cover, cover_device,
                   entities, subscribers, config_entries>>

NextSetup ==
    \/ \E load \in LoadOutcomes, connect \in ConnectOutcomes :
           async_setup_entry(load, connect)
    \/ \E options \in ConfigEntryOptions,
          send_delay_attr \in SendDelayAttrValues :
           update_listener(options, send_delay_attr)
    \/ \E close \in CloseOutcomes, unload_ok \in BOOLEAN :
           async_unload_entry(close, unload_ok)

SpecSetup == InitSetup /\ [][NextSetup]_vars

(***************************************************************************)
(* The config flow's user step.                                            *)
(***************************************************************************)
\* no entry of the domain yet, or one entry that has its unique id, as an
\* entry has once async_setup_entry ran on it (__init__.py 100-101)
InitFlow ==
    /\ is_connected = FALSE
    /\ device_manager = None
    /\ light = ScenarioLight_init(DefaultLightDevice, is_connected)
    /\ cover_device = DefaultCoverDevice
    /\ cover = ScenarioCover_init(DefaultCoverDevice, is_connected)
    /\ entities = [light |-> "none", cover |-> "none"]
    /\ subscribers = [light |-> <<>>, cover |-> <<>>]
    /\ last = [op |-> "__init__"]
    /\ sent = <<>>
    /\ raised = None
    /\ ha_writes = <<>>
    /\ entry = NewConfigEntry([delay |-> None, reconnect |-> None,
                               reconnect_delay |-> None], None)
    /\ \/ config_entries = <<>>
       \/ \E id \in ControllerIds, user_input \in UserInputs :
             /\ IPv4Address(user_input.host)
             /\ user_input.port = Some(28000)
             /\ config_entries = <<FlowEntry(Some(id), user_input, id)>>

\* the user opens the form (no input) or submits it
async_step_user(user_input, device_id) ==
    LET effect == StepUser(config_entries, user_input, device_id)
    IN  /\ Len(config_entries) < MaxEntries
        /\ config_entries' = effect.entries
        /\ last' = [op |-> "async_step_user", user_input |-> user_input,
                    device_id |-> device_id,
                    entries_before |-> config_entries,
                    result |-> effect.result]
        /\ sent' = <<>>
        /\ raised' = None
        /\ ha_writes' = <<>>
        /\ UNCHANGED <<is_connected, device_manager, light, cover,
                       cover_device, entities, subscribers, entry>>

NextFlow ==
    \E user_input \in Opt(UserInputs), device_id \in ControllerIds :
        async_step_user(user_input, device_id)

SpecFlow == InitFlow /\ [][NextFlow]_vars

(***************************************************************************)
(* ScenarioLight.is_on as a function of the two stored fields it reads.    *)
(* The fields are typed "int | None" and "tuple | None" by the host's      *)
(* LightEntity, and is_on tests both for None: the inputs range over the   *)
(* values the constructor and the callback store, and over None.           *)
(***************************************************************************)
\* the brightness values the entity can hold: to_hass_level of a controller
\* level (light.py 146, the constructor's 0 is to_hass_level(0)), or None
StoredBrightness == Opt({to_hass_level(level) : level \in 0..100})

\* the RGBW tuples the entity can hold: the constructor's zeros, a colour, or
\* None
StoredRgbwColors == Opt(RgbwColors \cup {<<0, 0, 0, 0>>})

\* any(iterable) of Python on a tuple of integers
any(values) == \E i \in 1..Len(values) : values[i] # 0

\* ScenarioLight.is_on, light.py 77-82
is_on(attr_brightness, attr_rgbw_color) ==
    IF attr_brightness # None /\ attr_rgbw_color # None
    THEN attr_brightness[1] > 0 \/ any(attr_rgbw_color[1])
    ELSE FALSE

InitIsOn ==
    /\ InitController
    /\ light = ScenarioLight_init(DefaultLightDevice, is_connected)
    /\ cover_device = DefaultCoverDevice
    /\ cover = ScenarioCover_init(DefaultCoverDevice, is_connected)
    /\ entities = [light |-> "added", cover |-> "none"]
    /\ subscribers =
           [light |-> add_subscriber(<<>>, "light.async_update_callback"),
            cover |-> <<>>]
    /\ \E b \in StoredBrightness, c \in StoredRgbwColors :
           last = [op |-> "fields", attr_brightness |-> b,
                   attr_rgbw_color |-> c]

\* the host reads the is_on property
ScenarioLight_is_on ==
    /\ last.op = "fields"
    /\ last' = [op |-> "is_on",
                attr_brightness |-> last.attr_brightness,
                attr_rgbw_color |-> last.attr_rgbw_color,
                result |-> is_on(last.attr_brightness, last.attr_rgbw_color)]
    /\ UNCHANGED <<is_connected, device_manager, light, cover, cover_device,
                   entities, subscribers, sent, raised, ha_writes, entry,
                   config_entries>>

NextIsOn == ScenarioLight_is_on

SpecIsOn == InitIsOn /\ [][NextIsOn]_vars

(***************************************************************************)
(* The level mapper as a pair of functions: every level of the two ranges  *)
(* is converted.                                                           *)
(***************************************************************************)
\* the host's brightness range
HassLevelRange == 0..255

\* the controller's intensity range
ScenarioLevelRange == 0..100

InitLevels ==
    /\ InitController
    /\ light = ScenarioLight_init(DefaultLightDevice, is_connected)
    /\ cover_device = DefaultCoverDevice
    /\ cover = ScenarioCover_init(DefaultCoverDevice, is_connected)
    /\ entities = [light |-> "added", cover |-> "none"]
    /\ subscribers =
           [light |-> add_subscriber(<<>>, "light.async_update_callback"),
            cover |-> <<>>]
    /\ last = [op |-> "__init__", device |-> DefaultLightDevice]

ToScenarioLevel(level) ==
    /\ last' = [op |-> "to_scenario_level", level |-> level,
                result |-> to_scenario_level(level)]
    /\ UNCHANGED <<is_connected, device_manager, light, cover, cover_device,
                   entities, subscribers, sent, raised, ha_writes, entry,
                   config_entries>>

ToHassLevel(level) ==
    /\ last' = [op |-> "to_hass_level", level |-> level,
                result |-> to_hass_level(level)]
    /\ UNCHANGED <<is_connected, device_manager, light, cover, cover_device,
                   entities, subscribers, sent, raised, ha_writes, entry,
                   config_entries>>

\* a controller level shown to the host and sent back, as when a notified
\* brightness (light.py 146) is used in a turn-on command (light.py 98)
ScenarioRoundTrip(level) ==
    /\ last' = [op |-> "scenario_round_trip", level |-> level,
                result |-> to_scenario_level(to_hass_level(level))]
    /\ UNCHANGED <<is_connected, device_manager, light, cover, cover_device,
                   entities, subscribers, sent, raised, ha_writes, entry,
                   config_entries>>

\* a host level sent to the controller and notified back
HassRoundTrip(level) ==
    /\ last' = [op |-> "hass_round_trip", level |-> level,
                result |-> to_hass_level(to_scenario_level(level))]
    /\ UNCHANGED <<is_connected, device_manager, light, cover, cover_device,
                   entities, subscribers, sent, raised, ha_writes, entry,
                   config_entries>>

NextLevels ==
    \/ \E level \in HassLevelRange : ToScenarioLevel(level)
    \/ \E level \in ScenarioLevelRange : ToHassLevel(level)
    \/ \E level \in ScenarioLevelRange : ScenarioRoundTrip(level)
    \/ \E level \in HassLevelRange : HassRoundTrip(level)

SpecLevels == InitLevels /\ [][NextLevels]_vars

(***************************************************************************)
(* Properties of the light commands.                                       *)
(***************************************************************************)
LightCommandOps == {"async_turn_on", "async_turn_off", "_async_set_brightness"}

LightReady == light.unique_id # None /\ device_manager # None

LightCall(array) ==
    [call      |-> "async_update_light_state",
     unique_id |-> light.unique_id,
     value     |-> array]

\* C1: async_turn_on with an rgbw_color (r,g,b,w), with or without a
\* brightness, on an entity with a unique id and a device manager issues
\* exactly one async_update_light_state call, and its array is
\* [to_scenario_level(r), to_scenario_level(g), to_scenario_level(b),
\* to_scenario_level(w)]: the brightness argument has no influence.
C1_TurnOnRgbwArray ==
    (/\ last.op = "async_turn_on"
     /\ last.kwargs.rgbw_color # None
     /\ LightReady)
    => LET rgbw == last.kwargs.rgbw_color[1]
       IN  sent = <<LightCall(<<to_scenario_level(rgbw[1]),
                               to_scenario_level(rgbw[2]),
                               to_scenario_level(rgbw[3]),
                               to_scenario_level(rgbw[4])>>)>>

\* an rgbw_color (255,128,0,64) sent with brightness 0: the white channel is
\* to_scenario_level(64) = 25
C1_Witness ==
    /\ last.op = "async_turn_on"
    /\ last.kwargs.rgbw_color = Some(<<255, 128, 0, 64>>)
    /\ last.kwargs.brightness = Some(0)
    /\ Len(sent) = 1
    /\ sent[1].value = <<100, 50, 0, 25>>

\* C2: async_turn_on without an rgbw_color sends [0,0,0,to_scenario_level(b)],
\* b the brightness argument or 255 when there is none; async_turn_on() with
\* no arguments sends [0,0,0,100].
C2_TurnOnBrightnessArray ==
    (last.op = "async_turn_on" /\ last.kwargs.rgbw_color = None)
    => /\ LightReady => Len(sent) = 1
       /\ \A i \in 1..Len(sent) :
              /\ sent[i].call = "async_update_light_state"
              /\ sent[i].value =
                     <<0, 0, 0,
                       IF last.kwargs.brightness = None
                       THEN to_scenario_level(255)
                       ELSE to_scenario_level(last.kwargs.brightness[1])>>
              /\ last.kwargs.brightness = None
                     => sent[i].value = <<0, 0, 0, 100>>

\* async_turn_on(brightness=0) has sent [0,0,0,0]
C2_Witness ==
    /\ last.op = "async_turn_on"
    /\ last.kwargs = [brightness |-> Some(0), rgbw_color |-> None]
    /\ Len(sent) = 1
    /\ sent[1].value = <<0, 0, 0, 0>>

\* C3: every async_turn_off, whatever keyword arguments it carries, sends
\* what async_turn_on with brightness 0 and no colour argument sends: the
\* array [0,0,0,0].
C3_TurnOffSendsZeros ==
    last.op = "async_turn_off"
    => /\ sent = SetBrightnessCalls(
                     light, device_manager,
                     TurnOnBrightness([brightness |-> Some(0),
                                       rgbw_color |-> None]),
                     [rgbw_color |-> None])
       /\ \A i \in 1..Len(sent) : sent[i].value = <<0, 0, 0, 0>>

\* C4: with the unique id None or the device manager None a light command
\* issues no async_update_light_state call, raises nothing, and leaves the
\* stored brightness, RGBW tuple and cached availability as they were.
C4_LightCommandSkipped ==
    [][(/\ last'.op \in LightCommandOps
        /\ (light.unique_id = None \/ device_manager = None))
       => /\ sent' = <<>>
          /\ raised' = None
          /\ light'.attr_brightness = light.attr_brightness
          /\ light'.attr_rgbw_color = light.attr_rgbw_color
          /\ light'.attr_available = light.attr_available]_vars

\* a turn-on with a colour was skipped for the missing unique id alone
C4_Witness ==
    /\ last.op = "async_turn_on"
    /\ last.kwargs.rgbw_color # None
    /\ light.unique_id = None
    /\ device_manager # None
    /\ sent = <<>>
    /\ raised = None

(***************************************************************************)
(* Properties of the cover.                                                *)
(***************************************************************************)
CoverCommandOps == {"async_open_cover", "async_close_cover", "async_stop_cover"}

CoverCall(code) ==
    [call      |-> "async_update_cover_state",
     unique_id |-> cover.unique_id,
     value     |-> code]

\* C5: with the unique id None or the device manager None each of
\* async_open_cover, async_close_cover and async_stop_cover issues no
\* cover-state-update call and lets no exception propagate.
C5_CoverCommandSkipped ==
    (/\ last.op \in CoverCommandOps
     /\ (cover.unique_id = None \/ device_manager = None))
    => (sent = <<>> /\ raised = None)

CoverNotified == last.op = "cover.async_update_callback"

CoverPair(command, states) ==
    /\ CoverNotified
    /\ last.kwargs.command = Some(command)
    /\ last.kwargs.state \in {Some(s) : s \in states}

\* C7: after a notification with command and state, down+active has set
\* is_closed to true, up+active has set it to false, and stop with active or
\* inactive has set is_opening and is_closing to false; a new cover has
\* is_closed = true.
C7_CoverNotification ==
    /\ CoverPair("IFSEI_COVER_DOWN", {"IFSEI_ATTR_SCENE_ACTIVE"})
           => cover.attr_is_closed = TRUE
    /\ CoverPair("IFSEI_COVER_UP", {"IFSEI_ATTR_SCENE_ACTIVE"})
           => cover.attr_is_closed = FALSE
    /\ CoverPair("IFSEI_COVER_STOP",
                 {"IFSEI_ATTR_SCENE_ACTIVE", "IFSEI_ATTR_SCENE_INACTIVE"})
           => /\ cover.attr_is_opening = Some(FALSE)
              /\ cover.attr_is_closing = Some(FALSE)
    /\ last.op = "__init__" => cover.attr_is_closed = TRUE

\* stop+inactive has cleared both flags of an open cover
C7_Witness ==
    /\ CoverPair("IFSEI_COVER_STOP", {"IFSEI_ATTR_SCENE_INACTIVE"})
    /\ cover.attr_is_opening = Some(FALSE)
    /\ cover.attr_is_closing = Some(FALSE)
    /\ cover.attr_is_closed = FALSE

\* the command/state pairs async_update_callback acts on
CoverRecognised(kwargs) ==
    /\ kwargs.command # None
    /\ kwargs.state # None
    /\ \/ /\ kwargs.command[1] \in {"IFSEI_COVER_DOWN", "IFSEI_COVER_UP"}
          /\ kwargs.state[1] = "IFSEI_ATTR_SCENE_ACTIVE"
       \/ /\ kwargs.command[1] = "IFSEI_COVER_STOP"
          /\ kwargs.state[1] \in {"IFSEI_ATTR_SCENE_ACTIVE",
                                  "IFSEI_ATTR_SCENE_INACTIVE"}

\* C8: a cover notification with any other command/state pair, or with only
\* one of command and state, leaves is_closed, is_opening and is_closing as
\* they were, and the state re-render is still signalled.
C8_CoverNotificationIgnored ==
    [][(/\ last'.op = "cover.async_update_callback"
        /\ ~CoverRecognised(last'.kwargs))
       => /\ cover'.attr_is_closed = cover.attr_is_closed
          /\ cover'.attr_is_opening = cover.attr_is_opening
          /\ cover'.attr_is_closing = cover.attr_is_closing
          /\ Len(ha_writes') = 1]_vars

\* down+inactive has left an open cover open, and was re-rendered
C8_Witness ==
    /\ CoverPair("IFSEI_COVER_DOWN", {"IFSEI_ATTR_SCENE_INACTIVE"})
    /\ cover.attr_is_closed = FALSE
    /\ Len(ha_writes) = 1

\* C9: the cover commands never change is_closed, is_opening, is_closing or
\* the cached availability flag: the cover's displayed state changes in
\* notification steps only.
C9_CoverCommandsKeepState ==
    [][/\ last'.op \in CoverCommandOps => cover' = cover
       /\ cover' # cover => last'.op = "cover.async_update_callback"]_vars

\* open was sent for a closed cover, which is still closed and not opening
C9_Witness ==
    /\ last.op = "async_open_cover"
    /\ sent = <<CoverCall(cover.up)>>
    /\ cover.attr_is_closed = TRUE
    /\ cover.attr_is_opening # Some(TRUE)

(***************************************************************************)
(* Properties of the light notifications.                                  *)
(***************************************************************************)
\* C10: a brightness field b sets the stored brightness to to_hass_level(b)
\* exactly when the cached availability flag is true once the notification's
\* own available field has been applied; otherwise the stored brightness
\* stays as it was.
C10_BrightnessGatedByFlag ==
    [][(/\ last'.op = "light.async_update_callback"
        /\ last'.kwargs.brightness # None)
       => LET flag == IF last'.kwargs.available # None
                      THEN last'.kwargs.available[1]
                      ELSE light.attr_available
          IN  /\ light'.attr_available = flag
              /\ light'.attr_brightness =
                     IF flag THEN to_hass_level(last'.kwargs.brightness[1])
                     ELSE light.attr_brightness]_vars

\* available=true and brightness=50 in one notification: the brightness is
\* 128 and the entity is available
C10_Witness ==
    /\ last.op = "light.async_update_callback"
    /\ last.kwargs.available = Some(TRUE)
    /\ last.kwargs.brightness = Some(50)
    /\ light.attr_available
    /\ light.attr_brightness = 128

\* the channel a field of the notification leaves: to_hass_level of the
\* field when it is present, the previous value when it is absent
ChannelAfter(field, previous) ==
    IF field # None THEN to_hass_level(field[1]) ELSE previous

\* C11: a notification to an RGBW light whose cached availability flag is
\* true (once the notification's available field is applied) sets channels
\* 0, 1, 2 from the red, green and blue fields and channel 3 from the
\* brightness field, each by to_hass_level, and keeps every channel whose
\* field is absent; with the flag false the RGBW tuple stays as it was.
C11_RgbwChannelUpdate ==
    [][(/\ last'.op = "light.async_update_callback"
        /\ light.attr_color_mode = Some("RGBW"))
       => LET kwargs == last'.kwargs
              old    == light.attr_rgbw_color
          IN  light'.attr_rgbw_color =
                  IF light'.attr_available
                  THEN <<ChannelAfter(kwargs.red, old[1]),
                         ChannelAfter(kwargs.green, old[2]),
                         ChannelAfter(kwargs.blue, old[3]),
                         ChannelAfter(kwargs.brightness, old[4])>>
                  ELSE old]_vars

\* a notification with green and brightness 0 alone has left the red channel
\* at the value an earlier notification gave it
C11_Witness ==
    /\ last.op = "light.async_update_callback"
    /\ last.kwargs.red = None
    /\ last.kwargs.blue = None
    /\ last.kwargs.green # None
    /\ last.kwargs.brightness = Some(0)
    /\ light.attr_rgbw_color[1] > 0
    /\ light.attr_rgbw_color[2] = to_hass_level(last.kwargs.green[1])
    /\ light.attr_rgbw_color[3] = 0
    /\ light.attr_rgbw_color[4] = 0

\* C12: every invocation of the notification callback of a light or a cover
\* writes the entity state to the host exactly once, and what it writes is
\* the state after all field updates of that notification; this includes
\* notifications that change no field.
C12_CallbackWritesStateOnce ==
    /\ last.op = "light.async_update_callback" => ha_writes = <<light>>
    /\ last.op = "cover.async_update_callback" => ha_writes = <<cover>>

\* an empty light notification was delivered and the state was written once
C12_Witness ==
    /\ last.op = "light.async_update_callback"
    /\ \A f \in DOMAIN last.kwargs : last.kwargs[f] = None
    /\ ha_writes = <<light>>

\* C13: in every reachable state of a light or cover entity the available
\* property equals the controller connection's live is_connected value,
\* whatever available fields earlier notifications stored in the cached flag.
C13_AvailableIsLive ==
    /\ entities.light # "none" => available(light) = is_connected
    /\ entities.cover # "none" => available(cover) = is_connected

\* a notification carried available=false while the connection is up: the
\* cached flag is false and the property is still true
C13_Witness ==
    /\ last.op = "light.async_update_callback"
    /\ last.kwargs.available = Some(FALSE)
    /\ light.attr_available = FALSE
    /\ is_connected
    /\ available(light)

ClaimedColorMode(device) ==
    IF device.is_rgb THEN "RGBW"
    ELSE IF \E i \in 1..Len(device.address) : device.address[i]
         THEN "BRIGHTNESS"
         ELSE "ONOFF"

\* C15: at construction the light's colour mode is RGBW if the device is
\* RGB-capable, brightness-only if it is not and at least one address is
\* dimmable, whatever its position, and on/off-only in every other case,
\* including a device with no addresses.
C15_ColorModeAtConstruction ==
    (last.op = "__init__" /\ entities.light = "added")
        => light.attr_color_mode = Some(ClaimedColorMode(last.device))

(***************************************************************************)
(* Properties of the subscription.                                         *)
(***************************************************************************)
\* the subscriptions an entity in the given lifecycle state holds
SubscriptionsOf(entity, callback) ==
    IF entity = "added" THEN <<callback>> ELSE <<>>

\* C16: the notification callback of a light or cover is registered on the
\* device exactly once from construction until teardown and not at all after
\* teardown; only async_will_remove_from_hass changes the subscriptions, and
\* it always removes the entity's one.
C16_SubscribedUntilTeardown ==
    /\ [](/\ subscribers.light
               = SubscriptionsOf(entities.light, "light.async_update_callback")
          /\ subscribers.cover
               = SubscriptionsOf(entities.cover, "cover.async_update_callback"))
    /\ [][/\ subscribers' # subscribers
             => last'.op \in {"light.async_will_remove_from_hass",
                              "cover.async_will_remove_from_hass"}
          /\ last'.op = "light.async_will_remove_from_hass"
             => subscribers'.light = <<>>
          /\ last'.op = "cover.async_will_remove_from_hass"
             => subscribers'.cover = <<>>]_vars

\* a light entity was torn down and its callback is no longer registered
C16_Witness ==
    /\ last.op = "light.async_will_remove_from_hass"
    /\ entities.light = "removed"
    /\ subscribers.light = <<>>

(***************************************************************************)
(* Properties of the level mapper.                                         *)
(***************************************************************************)
Converted(op, level) == last.op = op /\ last.level = level

\* C17: the level mapper returns the documented values: to_scenario_level
\* maps 0, 255, 128 to 0, 100, 50 and to_hass_level maps 0, 100, 50 to
\* 0, 255, 128 (the exact tie 127.5 resolves to 128).
C17_DocumentedLevels ==
    /\ Converted("to_scenario_level", 0) => last.result = 0
    /\ Converted("to_scenario_level", 255) => last.result = 100
    /\ Converted("to_scenario_level", 128) => last.result = 50
    /\ Converted("to_hass_level", 0) => last.result = 0
    /\ Converted("to_hass_level", 100) => last.result = 255
    /\ Converted("to_hass_level", 50) => last.result = 128

\* the tie 127.5 was converted, to 128
C17_Witness ==
    /\ Converted("to_hass_level", 50)
    /\ last.result = 128

Abs(x) == IF x < 0 THEN -x ELSE x

\* the controller levels whose host level level*255/100 is an exact tie
TieLevels == {level \in ScenarioLevelRange : 2 * ((level * 255) % 100) = 100}

\* the result of rounding q + 1/2 under a tie rule
RoundTie(rule, q) ==
    CASE rule = "half_even" -> IF q % 2 = 0 THEN q ELSE q + 1
      [] rule = "half_up"   -> q + 1
      [] rule = "half_down" -> q

\* C18: to_scenario_level maps 0..255 into 0..100 within 1/2 of
\* level*100/255, to_hass_level maps 0..100 into 0..255 within 1/2 of
\* level*255/100, and every exact tie (levels 10, 30, 50, 70, 90) is resolved
\* by one and the same rule.
C18_RoundsToNearest ==
    /\ last.op = "to_scenario_level"
       => /\ last.result \in ScenarioLevelRange
          /\ Abs(2 * 255 * last.result - 2 * 100 * last.level) <= 255
    /\ last.op = "to_hass_level"
       => /\ last.result \in HassLevelRange
          /\ Abs(2 * 100 * last.result - 2 * 255 * last.level) <= 100
    /\ TieLevels = {10, 30, 50, 70, 90}
    /\ \E rule \in {"half_even", "half_up", "half_down"} :
          \A level \in TieLevels :
             to_hass_level(level) = RoundTie(rule, (level * 255) \div 100)

\* the tie 76.5 was converted, to the even neighbour 76
C18_Witness ==
    /\ Converted("to_hass_level", 30)
    /\ last.result = 76

(***************************************************************************)
(* Properties of async_setup_entry.                                        *)
(***************************************************************************)
\* the last run of async_setup_entry made the call
SetupCalled(name) ==
    \E i \in 1..Len(entry.calls) : entry.calls[i].call = name

\* C19: when the connection attempt of async_setup_entry fails with a
\* refused connection or a timeout, setup raises ConfigEntryNotReady (entry
\* state SETUP_RETRY); the send delay is not applied, the controller and the
\* light and cover lists are not stored in the entry data, the bridge device
\* is not registered and no platform is forwarded.
C19_ConnectFailureIsRetryable ==
    (/\ last.op = "async_setup_entry"
     /\ last.connect \in {"ConnectionRefusedError", "TimeoutError"})
        => /\ raised = Some("ConfigEntryNotReady")
           /\ entry.state = "SETUP_RETRY"
           /\ SetupCalled("async_connect")
           /\ ~SetupCalled("set_send_delay")
           /\ entry.data.controller = None
           /\ entry.data.lights = None
           /\ entry.data.covers = None
           /\ ~SetupCalled("register_device")
           /\ ~SetupCalled("async_forward_entry_setups")

\* the devices were loaded and the connection was refused
C19_Witness ==
    /\ last.op = "async_setup_entry"
    /\ last.load = "ok"
    /\ last.connect = "ConnectionRefusedError"
    /\ entry.state = "SETUP_RETRY"

\* C20: when loading the device list raises a validation error or leaves the
\* controller without a device manager, async_setup_entry returns False
\* (entry state SETUP_ERROR) and neither connects to the controller nor
\* forwards a platform.
C20_LoadFailureAborts ==
    (/\ last.op = "async_setup_entry"
     /\ last.load \in {"vol.Invalid", "no_device_manager"})
        => /\ last.result = Some(FALSE)
           /\ raised = None
           /\ entry.state = "SETUP_ERROR"
           /\ SetupCalled("load_devices")
           /\ ~SetupCalled("async_connect")
           /\ ~is_connected
           /\ ~SetupCalled("async_forward_entry_setups")

\* the device list loaded without a device manager and setup returned False
C20_Witness ==
    /\ last.op = "async_setup_entry"
    /\ last.load = "no_device_manager"
    /\ device_manager = None
    /\ last.result = Some(FALSE)

(***************************************************************************)
(* Properties of async_unload_entry.                                       *)
(***************************************************************************)
\* how often the last handler made the call
CallCount(name) ==
    Cardinality({i \in 1..Len(entry.calls) : entry.calls[i].call = name})

\* C21: unloading a loaded entry closes the controller exactly once, before
\* the platforms are unloaded and whatever they answer; when the close
\* returns, the entry's data leaves the shared map if and only if the
\* platform unload succeeded and async_unload_entry returns the platforms'
\* answer, so after a failed platform unload the entry stays loaded with
\* its data present and its controller closed.
C21_UnloadClosesThenPops ==
    last.op = "async_unload_entry"
        => /\ CallCount("async_close") = 1
           /\ entry.calls[1].call = "async_close"
           /\ last.close = "ok"
              => /\ Len(entry.calls) = 2
                 /\ entry.calls[2] = Call("async_unload_platforms",
                                          Some(last.unload_ok))
                 /\ last.result = Some(last.unload_ok)
                 /\ entry.stored = ~last.unload_ok
                 /\ ~is_connected
                 /\ ~last.unload_ok
                    => /\ entry.state = "LOADED"
                       /\ entry.data.controller = Some("ifsei")
                       /\ entry.data.lights # None
                       /\ entry.data.covers # None

\* the platforms refused to unload: the controller is closed, the data stays
C21_Witness ==
    /\ last.op = "async_unload_entry"
    /\ last.close = "ok"
    /\ last.unload_ok = FALSE
    /\ entry.stored
    /\ entry.state = "LOADED"

(***************************************************************************)
(* Properties of the config flow.                                          *)
(***************************************************************************)
\* the port text is an integer of the valid port range
ValidPort(port) ==
    /\ port # None
    /\ port[1] \in MIN_PORT_NUMBER..MAX_PORT_NUMBER

\* the user step ran on a submitted input whose host is a valid IPv4 address
SubmittedWithValidHost ==
    /\ last.op = "async_step_user"
    /\ last.user_input # None
    /\ IPv4Address(last.user_input[1].host)

\* an entry for the controller the flow talks to is already configured
ControllerConfigured(device_id, current_entries) ==
    \E i \in 1..Len(current_entries) :
        \/ current_entries[i].unique_id = Some(device_id)
        \/ current_entries[i].controller_unique_id = device_id

\* C22: in the user step an input whose port is not an integer of the valid
\* port range (no number, above 65535, negative) shows the form again with
\* errors {base: invalid_port} and creates no entry, while ports 1 and 65535
\* with a valid IPv4 host create an entry.
C22_InvalidPortRejected ==
    SubmittedWithValidHost
        => LET port == last.user_input[1].port
           IN  /\ ~ValidPort(port)
                  => /\ last.result = FlowResult("form", Some("invalid_port"),
                                                 None)
                     /\ config_entries = last.entries_before
               /\ (/\ port \in {Some(1), Some(65535)}
                   /\ ~ControllerConfigured(last.device_id,
                                            last.entries_before))
                  => /\ last.result.type = "create_entry"
                     /\ Len(config_entries) = Len(last.entries_before) + 1

\* C23: in the user step, when an entry with the same controller unique id
\* is already configured, a valid input aborts the flow and no second entry
\* is created; so at most one entry exists per controller unique id.
C23_DuplicateControllerAborts ==
    /\ (/\ SubmittedWithValidHost
        /\ ValidPort(last.user_input[1].port)
        /\ ControllerConfigured(last.device_id, last.entries_before))
       => /\ last.result.type = "abort"
          /\ config_entries = last.entries_before
    /\ \A i, j \in 1..Len(config_entries) :
          i # j => config_entries[i].controller_unique_id
                       # config_entries[j].controller_unique_id

(***************************************************************************)
(* Properties of the order of async_setup_entry's steps.                   *)
(***************************************************************************)
\* the position of a call the last setup made exactly once, 0 otherwise
CallIndex(call) ==
    LET at == {i \in 1..Len(entry.calls) : entry.calls[i] = call}
    IN  IF Cardinality(at) = 1 THEN CHOOSE i \in at : TRUE ELSE 0

\* the positions of the calls of the given name
CallsNamed(name) == {i \in 1..Len(entry.calls) : entry.calls[i].call = name}

\* C24: in every successful run of async_setup_entry the device list is
\* loaded, then the controller is connected, then the send delay is applied,
\* then the controller and the light and cover lists are stored in the entry
\* data, and only then are the platforms forwarded: the platform setup finds
\* the controller and both lists in the entry data.
C24_SetupOrder ==
    (last.op = "async_setup_entry" /\ last.result = Some(TRUE))
        => LET load    == CallIndex(Call("load_devices", None))
               connect == CallIndex(Call("async_connect", None))
               delay   == CallIndex(Call("set_send_delay", entry.data.delay))
               stores  == CallsNamed("store")
               forward == CallsNamed("async_forward_entry_setups")
           IN  /\ 0 < load
               /\ load < connect
               /\ connect < delay
               /\ {entry.calls[i].value : i \in stores}
                     = {Some("controller"), Some("lights"), Some("covers")}
               /\ \A i \in stores : delay < i
               /\ forward = {Len(entry.calls)}
               /\ \A i \in stores, j \in forward : i < j
               /\ \A j \in forward :
                     LET seen == entry.calls[j].value[1]
                     IN  /\ seen.controller # None
                         /\ seen.lights # None
                         /\ seen.covers # None

\* a setup succeeded for an entry that had saved a send delay
C24_Witness ==
    /\ last.op = "async_setup_entry"
    /\ last.result = Some(TRUE)
    /\ entry.state = "LOADED"
    /\ entry.options.delay = Some("0.5")
    /\ entry.calls[Len(entry.calls)].call = "async_forward_entry_setups"

(***************************************************************************)
(* Invariants of the entities.                                             *)
(***************************************************************************)
\* C25: in every state of a cover reachable from construction by
\* notifications and commands neither is_opening nor is_closing is true (so
\* is_closed = true never comes with is_opening = true), and is_closed is a
\* definite boolean.
C25_CoverNeverMoving ==
    entities.cover # "none"
        => /\ cover.attr_is_opening # Some(TRUE)
           /\ cover.attr_is_closing # Some(TRUE)
           /\ cover.attr_is_closed \in BOOLEAN

\* the controller reported the up scene active: the cover is open and was
\* never shown as opening
C25_Witness ==
    /\ CoverPair("IFSEI_COVER_UP", {"IFSEI_ATTR_SCENE_ACTIVE"})
    /\ cover.attr_is_closed = FALSE
    /\ cover.attr_is_opening = None
    /\ cover.attr_is_closing = None

\* C26: for a light in RGBW mode, in every state reachable from construction
\* by notifications and commands, the white channel of the stored RGBW tuple
\* equals the stored brightness, and the brightness and all four channels
\* lie in 0..255.
C26_WhiteIsBrightness ==
    (entities.light # "none" /\ light.attr_color_mode = Some("RGBW"))
        => /\ light.attr_rgbw_color[4] = light.attr_brightness
           /\ light.attr_brightness \in HassLevelRange
           /\ Len(light.attr_rgbw_color) = 4
           /\ \A i \in 1..4 : light.attr_rgbw_color[i] \in HassLevelRange

\* an RGBW light was notified of brightness 50 and of a colour while
\* available: brightness and white are both 128
C26_Witness ==
    /\ last.op = "light.async_update_callback"
    /\ last.kwargs.brightness = Some(50)
    /\ last.kwargs.red # None
    /\ light.attr_color_mode = Some("RGBW")
    /\ light.attr_brightness = 128
    /\ light.attr_rgbw_color[4] = 128
    /\ light.attr_rgbw_color[1] > 0

\* C27: for a light whose colour mode is brightness-only or on/off-only no
\* sequence of notifications and commands changes the stored RGBW tuple from
\* (0,0,0,0), even when notifications carry red, green or blue; so is_on is
\* true exactly when the stored brightness is greater than 0.
C27_NoColourWithoutRgbw ==
    (/\ entities.light # "none"
     /\ light.attr_color_mode \in {Some("BRIGHTNESS"), Some("ONOFF")})
        => /\ light.attr_rgbw_color = <<0, 0, 0, 0>>
           /\ is_on(Some(light.attr_brightness), Some(light.attr_rgbw_color))
                 = (light.attr_brightness > 0)

\* a brightness-only light was notified of a colour and a brightness while
\* available: it is on and its tuple is still all zeros
C27_Witness ==
    /\ last.op = "light.async_update_callback"
    /\ last.kwargs.red # None
    /\ last.kwargs.blue # None
    /\ last.kwargs.brightness = Some(50)
    /\ light.attr_color_mode = Some("BRIGHTNESS")
    /\ light.attr_available
    /\ light.attr_brightness > 0
    /\ light.attr_rgbw_color = <<0, 0, 0, 0>>

(***************************************************************************)
(* Frame of the light commands.                                            *)
(***************************************************************************)
\* the array of a turn-on or turn-off command, from its arguments alone
ArrayOfArguments(op, kwargs) ==
    IF kwargs.rgbw_color # None
    THEN <<to_scenario_level(kwargs.rgbw_color[1][1]),
           to_scenario_level(kwargs.rgbw_color[1][2]),
           to_scenario_level(kwargs.rgbw_color[1][3]),
           to_scenario_level(kwargs.rgbw_color[1][4])>>
    ELSE IF op = "async_turn_off" THEN <<0, 0, 0, 0>>
    ELSE IF kwargs.brightness = None THEN <<0, 0, 0, 100>>
    ELSE <<0, 0, 0, to_scenario_level(kwargs.brightness[1])>>

\* is_on of the light entity as it stands
LightIsOn(self) == is_on(Some(self.attr_brightness), Some(self.attr_rgbw_color))

\* C28: async_turn_on and async_turn_off never change the stored brightness,
\* the stored RGBW tuple or the cached availability flag, and the array they
\* send is a function of their arguments, not of the stored state or the
\* colour mode; is_on and brightness change in notification steps only.
C28_CommandsAreDecoupled ==
    [][/\ last'.op \in {"async_turn_on", "async_turn_off"}
          => /\ light'.attr_brightness = light.attr_brightness
             /\ light'.attr_rgbw_color = light.attr_rgbw_color
             /\ light'.attr_available = light.attr_available
             /\ \A i \in 1..Len(sent') :
                   sent'[i].value = ArrayOfArguments(last'.op, last'.kwargs)
       /\ (\/ light'.attr_brightness # light.attr_brightness
           \/ LightIsOn(light') # LightIsOn(light))
          => last'.op = "light.async_update_callback"]_vars

\* a lit RGBW light with a stored colour was told to turn off: zeros were
\* sent and the entity is still on
C28_Witness ==
    /\ last.op = "async_turn_off"
    /\ last.kwargs.rgbw_color = None
    /\ sent = <<LightCall(<<0, 0, 0, 0>>)>>
    /\ light.attr_brightness = 128
    /\ light.attr_rgbw_color[1] > 0
    /\ LightIsOn(light)

(***************************************************************************)
(* Round trips of the level mapper.                                        *)
(***************************************************************************)
\* C29: mapping a controller level to the host scale and back is the
\* identity on 0..100; the opposite direction, host to controller to host
\* over 0..255, is not.
C29_ControllerRoundTrip ==
    /\ last.op = "scenario_round_trip" => last.result = last.level
    /\ \E level \in HassLevelRange :
          to_hass_level(to_scenario_level(level)) # level

\* the controller level 30 came back as 30 through the tie 76.5
C29_Witness ==
    /\ Converted("scenario_round_trip", 30)
    /\ to_hass_level(30) = 76
    /\ last.result = 30

(***************************************************************************)
(* Properties of the options update listener.                              *)
(***************************************************************************)
\* C30: the update listener run with the options the entry was set up with
\* stores in the entry data and applies to the controller the send delay,
\* reconnect flag and reconnect delay that async_setup_entry stored and
\* applied: the defaults 0.2, true, 30 for options that are not set, the
\* option values for those that are.
C30_ListenerRepeatsSetup ==
    (last.op = "update_listener" /\ last.options_before = entry.options)
        => LET setup == LoadOptions(entry)
           IN  /\ entry.data.delay = setup.delay
               /\ entry.data.reconnect = setup.reconnect
               /\ entry.data.reconnect_delay = setup.reconnect_delay
               /\ entry.calls
                     = <<Call("set_send_delay", setup.delay),
                         Call("set_reconnect_options",
                              Some(<<setup.reconnect[1],
                                     setup.reconnect_delay[1]>>))>>
               /\ entry.options.delay = None
                     => entry.data.delay = Some("0.2")
               /\ entry.options.reconnect = None
                     => entry.data.reconnect = Some(TRUE)
               /\ entry.options.reconnect_delay = None
                     => entry.data.reconnect_delay = Some(30)

====
